---- MODULE Spec2Model ----
(***************************************************************************)
(* Model of fr_benou::Stats (src/include/Stats.hpp): a ring of TIMEOUT     *)
(* per-timestamp buckets, the compound iterator that walks the buckets     *)
(* from the oldest to the newest element, and the percentile query.        *)
(***************************************************************************)
EXTENDS Integers, Naturals, Sequences, FiniteSets, TLC

\* Bounds of the model.
MaxTimeout == 3     \* TIMEOUT is instantiated with the widths 1 and MaxTimeout
MaxTs      == 4     \* timestamps passed to add are 0..MaxTs
MaxVal     == 1     \* values passed to add are 0..MaxVal
MaxAdds    == 3     \* add calls between two clear calls
MaxReaders == 2     \* clients that walk a view of the container step by step

\* timestamp_type and size_type are std::uint64_t: arithmetic is modulo 2^64.
\* TLC integers are 32 bits wide, so the modulus is scaled down to 2^30; every
\* timestamp, size and percentile of the model is far below it, so a
\* subtraction or a product wraps around in the model exactly when it wraps
\* around in the 64-bit build.
Uint64Modulus == 2^30

Timestamps  == 0..MaxTs
Values      == 0..MaxVal
\* Arguments handed to get_p(int p); get_p70 hands it 70.
Percentiles == {0, 50, 100}
\* Arguments outside [0, 100] handed to get_p(int p).
InvalidPercentiles == {-1, 101}

\* Value read past the end of the scratch vector (indeterminate), and the
\* absence of a returned value.
Garbage == -1
NoValue == -2

VARIABLES
    TIMEOUT,        \* template parameter TIMEOUT of this instantiation
    statsBuckets,   \* StatsVector statsBuckets[TIMEOUT], indexed 0..TIMEOUT-1
    history,        \* history variable: the timestamps passed to add since the
                    \* container was constructed or last cleared, in call order
    ret,            \* the last operation called, and the value it was handed
                    \* (add) or what it returned
    views           \* per reader: the const_iterator it holds and walks step
                    \* by step, and the pairs it has visited so far

vars == <<TIMEOUT, statsBuckets, history, ret, views>>

Readers == 1..MaxReaders

\* std::make_pair(ts, val). The field n is a history field: the number of the
\* add call that stored the pair (its position in history).
StatsPair(ts, val, n) == [first |-> ts, second |-> val, n |-> n]

NoRet == [op |-> "none", p |-> 0, sz |-> 0, index |-> 0, val |-> NoValue,
          err |-> "none", out |-> <<>>]

----------------------------------------------------------------------------
\* statsBucketsIterator

\* The scan of the constructor: max and index_max after buckets i..TIMEOUT-1.
RECURSIVE scan_max(_, _, _, _)
scan_max(stats, i, max, index_max) ==
    IF i >= TIMEOUT THEN [max |-> max, index_max |-> index_max]
    ELSE IF Len(stats[i]) # 0 /\ stats[i][1].first > max
         THEN scan_max(stats, i + 1, stats[i][1].first, i)
         ELSE scan_max(stats, i + 1, max, index_max)

\* Mutant of statsBucketsIterator: ts_min is one second too old.
statsBucketsIterator_older(stats) ==
    LET r == scan_max(stats, 0, 0, 0)
    IN  [current   |-> [bucket |-> 0, pos |-> 0],
         ts_min    |-> (r.max - TIMEOUT - 1) % Uint64Modulus,
         index     |-> 0,
         index_max |-> r.index_max]

\* Mutant of statsBucketsIterator: the scan leaves out the first bucket.
statsBucketsIterator_skip_first(stats) ==
    LET r == scan_max(stats, 1, 0, 0)
    IN  [current   |-> [bucket |-> 0, pos |-> 0],
         ts_min    |-> (r.max - TIMEOUT) % Uint64Modulus,
         index     |-> 0,
         index_max |-> r.index_max]

\* statsBucketsIterator(const Stats *stats). current is a position in a bucket
\* vector: the bucket it points into and the offset from that bucket's
\* begin(). The constructor leaves current unset; begin() and end() set it
\* before anything reads it.
statsBucketsIterator(stats) ==
    LET r == scan_max(stats, 0, 0, 0)
    IN  [current   |-> [bucket |-> 0, pos |-> 0],
         ts_min    |-> (r.max - TIMEOUT) % Uint64Modulus,
         index     |-> 0,
         index_max |-> r.index_max]

\* Mutant of next_: the ring is walked the wrong way round.
next_backwards(index) == (index + TIMEOUT - 1) % TIMEOUT

next_(index) == (index + 1) % TIMEOUT

\* current == stats->statsBuckets[index].end()
at_end(stats, it) == it.current.pos = Len(stats[it.current.bucket])

\* operator*
deref(stats, it) == stats[it.current.bucket][it.current.pos + 1]

\* Mutant of seek: elements older than ts_min are not skipped.
RECURSIVE seek_no_ts_min(_, _)
seek_no_ts_min(stats, it) ==
    IF at_end(stats, it) /\ it.index # it.index_max
    THEN seek_no_ts_min(stats,
             [it EXCEPT !.index = next_(it.index),
                        !.current = [bucket |-> next_(it.index), pos |-> 0]])
    ELSE it

RECURSIVE seek(_, _)
seek(stats, it) ==
    IF (at_end(stats, it) \/ deref(stats, it).first < it.ts_min)
       /\ it.index # it.index_max
    THEN seek(stats, [it EXCEPT !.index = next_(it.index),
                                !.current = [bucket |-> next_(it.index), pos |-> 0]])
    ELSE it

\* The number of times the loop of seek moves to the next bucket.
RECURSIVE seek_moves(_, _)
seek_moves(stats, it) ==
    IF (at_end(stats, it) \/ deref(stats, it).first < it.ts_min)
       /\ it.index # it.index_max
    THEN 1 + seek_moves(stats, [it EXCEPT !.index = next_(it.index),
                                          !.current = [bucket |-> next_(it.index),
                                                       pos |-> 0]])
    ELSE 0

it_begin(stats, it) ==
    seek(stats, [it EXCEPT !.index = next_(it.index_max),
                           !.current = [bucket |-> next_(it.index_max), pos |-> 0]])

it_end(stats, it) ==
    [it EXCEPT !.index = it.index_max,
               !.current = [bucket |-> it.index_max, pos |-> Len(stats[it.index_max])]]

\* Mutant of increment: the position in the bucket is not advanced.
increment_stuck(stats, it) == seek(stats, it)

\* operator++
increment(stats, it) ==
    seek(stats, [it EXCEPT !.current = [bucket |-> it.current.bucket,
                                        pos |-> it.current.pos + 1]])

\* operator!=: compares the two current positions only.
not_equal(it, other) == it.current # other.current

----------------------------------------------------------------------------
\* Stats

begin(stats) == it_begin(stats, statsBucketsIterator(stats))

end(stats) == it_end(stats, statsBucketsIterator(stats))

RECURSIVE size_from(_, _)
size_from(stats, i) ==
    IF i >= TIMEOUT THEN 0 ELSE Len(stats[i]) + size_from(stats, i + 1)

\* Mutant of size: the loop leaves out the first bucket.
size_skip_first(stats) == size_from(stats, 1)

size(stats) == size_from(stats, 0)

\* Mutant of clear: the loop stops one bucket early.
clear_skip_last(stats) ==
    [i \in 0..(TIMEOUT - 1) |-> IF i < TIMEOUT - 1 THEN <<>> ELSE stats[i]]

clear(stats) == [i \in 0..(TIMEOUT - 1) |-> <<>>]

\* Mutant of add: a bucket holding another timestamp is not cleared.
add_no_clear(stats, statsPair) ==
    LET index == statsPair.first % TIMEOUT
    IN  [stats EXCEPT ![index] = Append(stats[index], statsPair)]

\* Mutant of add: a non-empty bucket is cleared whatever timestamp it holds.
add_always_clear(stats, statsPair) ==
    LET index == statsPair.first % TIMEOUT
    IN  [stats EXCEPT ![index] = <<statsPair>>]

add(stats, statsPair) ==
    LET ts     == statsPair.first
        index  == ts % TIMEOUT
        bucket == stats[index]
        kept   == IF Len(bucket) # 0 /\ ts # bucket[1].first THEN <<>> ELSE bucket
    IN  [stats EXCEPT ![index] = Append(kept, statsPair)]

\* for (it = first; it != last; ++it) visit *it: the elements visited.
RECURSIVE traverse(_, _, _)
traverse(stats, first, last) ==
    IF not_equal(first, last)
    THEN <<deref(stats, first)>> \o traverse(stats, increment(stats, first), last)
    ELSE <<>>

\* The values of the pairs of a sequence: the lambda of get_p applied by
\* std::transform to each element visited.
RECURSIVE transform(_)
transform(pairs) ==
    IF pairs = <<>> THEN <<>> ELSE <<Head(pairs).second>> \o transform(Tail(pairs))

\* std::vector<T> v(sz): sz value-initialised elements.
zeros(sz) == [k \in 1..sz |-> 0]

\* v after std::transform has written the visited values over its first
\* elements.
overwrite(v, vals) ==
    [k \in 1..Len(v) |-> IF k <= Len(vals) THEN vals[k] ELSE v[k]]

RECURSIVE insert_sorted(_, _)
insert_sorted(x, s) ==
    IF s = <<>> THEN <<x>>
    ELSE IF x <= Head(s) THEN <<x>> \o s
         ELSE <<Head(s)>> \o insert_sorted(x, Tail(s))

RECURSIVE sort(_)
sort(s) == IF s = <<>> THEN <<>> ELSE insert_sorted(Head(s), sort(Tail(s)))

\* std::nth_element(v.begin(), v.begin() + index, v.end()) for index < size:
\* afterwards the element at index is the one a full ascending sort puts
\* there, which is all get_p reads.
nth_element(v, index) == sort(v)

\* size_type index = (sz * p + 99) / 100, p converted to size_type.
rank_index(sz, p) == ((((sz * p) % Uint64Modulus) + 99) % Uint64Modulus) \div 100

\* get_p(int p) past its emptiness test: the set of outcomes the call can
\* have. Reading v[index] with index == v.size() reads past the end of the
\* vector: the value is indeterminate. With index > v.size() nth_element is
\* handed a position outside the range as well, and the call may also crash.
percentile(stats, sz, p) ==
    LET v     == overwrite(zeros(sz),
                           transform(traverse(stats, begin(stats), end(stats))))
        index == rank_index(sz, p)
    IN  IF index < sz
        THEN {[err |-> "none", sz |-> sz, index |-> index,
               val |-> nth_element(v, index)[index + 1]]}
        ELSE {[err |-> "none", sz |-> sz, index |-> index, val |-> x] :
                 x \in Values \cup {Garbage}}
             \cup (IF index > sz
                   THEN {[err |-> "crash", sz |-> sz, index |-> index,
                          val |-> NoValue]}
                   ELSE {})

\* Mutant of get_p: the emptiness test is missing.
get_p_no_throw(stats, p) == percentile(stats, size(stats), p)

\* get_p(int p): throws std::out_of_range when size() is 0.
get_p(stats, p) ==
    LET sz == size(stats)
    IN  IF 0 = sz
        THEN {[err |-> "out_of_range", sz |-> sz, index |-> 0, val |-> NoValue]}
        ELSE percentile(stats, sz, p)

get_p70(stats) == get_p(stats, 70)

\* A reader that holds no iterator: it has acquired none yet, or an add or a
\* clear has invalidated the one it held.
NoView == [state |-> "none",
           it    |-> [current |-> [bucket |-> 0, pos |-> 0], ts_min |-> 0,
                      index |-> 0, index_max |-> 0],
           out   |-> <<>>]

NoViews == [r \in Readers |-> NoView]

----------------------------------------------------------------------------
Init ==
    /\ TIMEOUT \in {1, MaxTimeout}
    /\ statsBuckets = [i \in 0..(TIMEOUT - 1) |-> <<>>]
    /\ history = <<>>
    /\ ret = NoRet
    /\ views = NoViews

Add(ts, val) ==
    /\ Len(history) < MaxAdds
    /\ statsBuckets' = add(statsBuckets, StatsPair(ts, val, Len(history) + 1))
    /\ history' = Append(history, ts)
    /\ ret' = [NoRet EXCEPT !.op = "add", !.val = val]
    /\ views' = NoViews
    /\ UNCHANGED TIMEOUT

Clear ==
    /\ statsBuckets' = clear(statsBuckets)
    /\ history' = <<>>
    /\ ret' = [NoRet EXCEPT !.op = "clear"]
    /\ views' = NoViews
    /\ UNCHANGED TIMEOUT

Size ==
    /\ ret' = [NoRet EXCEPT !.op = "size", !.sz = size(statsBuckets)]
    /\ UNCHANGED <<TIMEOUT, statsBuckets, history, views>>

\* The loop of examples/main.cpp over begin()..end().
Traverse ==
    /\ ret' = [NoRet EXCEPT !.op = "traverse",
                            !.out = traverse(statsBuckets, begin(statsBuckets),
                                             end(statsBuckets))]
    /\ UNCHANGED <<TIMEOUT, statsBuckets, history, views>>

GetP(p) ==
    /\ \E r \in get_p(statsBuckets, p) :
          ret' = [NoRet EXCEPT !.op = "get_p", !.p = p, !.sz = r.sz,
                               !.index = r.index, !.val = r.val, !.err = r.err]
    /\ UNCHANGED <<TIMEOUT, statsBuckets, history, views>>

GetP70 ==
    /\ \E r \in get_p70(statsBuckets) :
          ret' = [NoRet EXCEPT !.op = "get_p70", !.p = 70, !.sz = r.sz,
                               !.index = r.index, !.val = r.val, !.err = r.err]
    /\ UNCHANGED <<TIMEOUT, statsBuckets, history, views>>

Next ==
    \/ \E ts \in Timestamps, val \in Values : Add(ts, val)
    \/ Clear
    \/ Size
    \/ Traverse
    \/ \E p \in Percentiles : GetP(p)
    \/ GetP70

Spec == Init /\ [][Next]_vars

\* Readers walking the view step by step, as the loop of examples/main.cpp
\* does: it = begin(); while (it != end()) { visit *it; ++it; }. The view
\* never reads a value, so the pairs added here all carry the value 0.
ViewBegin(r) ==
    /\ views[r].state \in {"none", "done"}
    /\ views' = [views EXCEPT ![r] = [state |-> "active",
                                      it    |-> begin(statsBuckets),
                                      out   |-> <<>>]]
    /\ UNCHANGED <<TIMEOUT, statsBuckets, history, ret>>

\* Mutant of ViewStep: the cursor is shared by all the views being walked.
ViewStep_shared(r) ==
    /\ views[r].state = "active"
    /\ not_equal(views[r].it, end(statsBuckets))
    /\ views' = [x \in Readers |->
                    IF x = r
                    THEN [views[r] EXCEPT
                             !.out = Append(@, deref(statsBuckets, views[r].it)),
                             !.it  = increment(statsBuckets, views[r].it)]
                    ELSE IF views[x].state = "active"
                         THEN [views[x] EXCEPT
                                  !.it = increment(statsBuckets, views[r].it)]
                         ELSE views[x]]
    /\ UNCHANGED <<TIMEOUT, statsBuckets, history, ret>>

ViewStep(r) ==
    /\ views[r].state = "active"
    /\ not_equal(views[r].it, end(statsBuckets))
    /\ views' = [views EXCEPT
                    ![r].out = Append(@, deref(statsBuckets, views[r].it)),
                    ![r].it  = increment(statsBuckets, views[r].it)]
    /\ UNCHANGED <<TIMEOUT, statsBuckets, history, ret>>

ViewDone(r) ==
    /\ views[r].state = "active"
    /\ ~not_equal(views[r].it, end(statsBuckets))
    /\ views' = [views EXCEPT ![r].state = "done"]
    /\ UNCHANGED <<TIMEOUT, statsBuckets, history, ret>>

NextViews ==
    \/ \E ts \in Timestamps : Add(ts, 0)
    \/ Clear
    \/ \E r \in Readers : ViewBegin(r)
    \/ \E r \in Readers : ViewStep(r)
    \/ \E r \in Readers : ViewDone(r)

SpecViews == Init /\ [][NextViews]_vars

\* The container queried with percentiles outside [0, 100].
NextInvalid ==
    \/ \E ts \in Timestamps, val \in Values : Add(ts, val)
    \/ Clear
    \/ \E p \in InvalidPercentiles : GetP(p)

SpecInvalid == Init /\ [][NextInvalid]_vars

----------------------------------------------------------------------------
\* Definitions the properties below are stated with.

Elements(seq) == {seq[k] : k \in 1..Len(seq)}

\* Every pair physically stored in some bucket.
StoredSamples(stats) == UNION {Elements(stats[i]) : i \in DOMAIN stats}

NoSamples(stats) == \A i \in DOMAIN stats : stats[i] = <<>>

Maximum(S) == CHOOSE m \in S : \A x \in S : x <= m

\* t_max: the maximum timestamp stored in a non-empty bucket.
TMax(stats) == Maximum({s.first : s \in StoredSamples(stats)})

\* The live samples: t_max - W < timestamp <= t_max, in the integers.
LiveSamples(stats) ==
    IF NoSamples(stats) THEN {}
    ELSE {s \in StoredSamples(stats) :
             TMax(stats) - TIMEOUT < s.first /\ s.first <= TMax(stats)}

\* The last operation was a percentile query with q in [0, 100] on a
\* container that holds at least one sample.
PercentileQueried ==
    /\ ret.op \in {"get_p", "get_p70"}
    /\ ret.p \in 0..100
    /\ ~NoSamples(statsBuckets)

\* The view of the current container, as begin()..end() walks it.
View == traverse(statsBuckets, begin(statsBuckets), end(statsBuckets))

\* The add calls of history whose pair no later add to the same bucket index
\* with a different timestamp has discarded.
NotDiscarded ==
    {k \in 1..Len(history) :
        ~\E j \in (k + 1)..Len(history) :
            /\ history[j] % TIMEOUT = history[k] % TIMEOUT
            /\ history[j] # history[k]}

----------------------------------------------------------------------------
\* C1: a traversal from begin() to end() yields exactly the stored samples
\* with t_max - W < timestamp <= t_max, each exactly once, also when the
\* timestamps are smaller than W.
C1_ViewYieldsLiveSamples ==
    ret.op = "traverse" =>
        /\ Elements(ret.out) = LiveSamples(statsBuckets)
        /\ Len(ret.out) = Cardinality(LiveSamples(statsBuckets))

\* C2: the samples a traversal yields are in non-decreasing timestamp order,
\* and samples with equal timestamps are in the order they were added.
C2_ViewOrdered ==
    ret.op = "traverse" =>
        \A i, j \in 1..Len(ret.out) :
            i < j => /\ ret.out[i].first <= ret.out[j].first
                     /\ ret.out[i].first = ret.out[j].first
                            => ret.out[i].n < ret.out[j].n

C2_Witness ==
    /\ ret.op = "traverse"
    /\ \E i, j \in 1..Len(ret.out) : i < j /\ ret.out[i].first = ret.out[j].first
    /\ \E i, j \in 1..Len(ret.out) : i < j /\ ret.out[i].first < ret.out[j].first

\* C3: a traversal yields no sample whose timestamp is <= t_max - W, t_max
\* being the maximum timestamp among the yielded samples; a stored sample at
\* or below that floor is skipped.
C3_ViewSkipsStale ==
    (ret.op = "traverse" /\ ret.out # <<>>) =>
        LET t_max == Maximum({s.first : s \in Elements(ret.out)})
        IN  /\ \A k \in 1..Len(ret.out) : ret.out[k].first > t_max - TIMEOUT
            /\ \A s \in StoredSamples(statsBuckets) :
                   s.first <= t_max - TIMEOUT => s \notin Elements(ret.out)

C3_Witness ==
    /\ ret.op = "traverse"
    /\ ret.out # <<>>
    /\ \E s \in StoredSamples(statsBuckets) :
           /\ s.first <= Maximum({x.first : x \in Elements(ret.out)}) - TIMEOUT
           /\ s \notin Elements(ret.out)

\* C4: on a non-empty container, get_p(q) with q in [0, 100] returns the
\* value of some live sample, also when stale samples are stored.
C4_PercentileIsLiveValue ==
    PercentileQueried =>
        /\ ret.err = "none"
        /\ \E s \in LiveSamples(statsBuckets) : s.second = ret.val

\* C5: on a non-empty container, get_p(q) with q in [0, 100] returns the
\* element at position min(ceil(n*q/100), n-1) of the ascending-sorted live
\* values, n being the number of live samples.
C5_PercentileRank ==
    PercentileQueried =>
        LET live == [k \in 1..Len(View) |-> View[k].second]
            n    == Cardinality(LiveSamples(statsBuckets))
            ceil == (n * ret.p + 99) \div 100
            k    == IF ceil < n - 1 THEN ceil ELSE n - 1
        IN  /\ ret.err = "none"
            /\ Elements(View) = LiveSamples(statsBuckets)
            /\ ret.val = sort(live)[k + 1]

\* C6: on a non-empty container, the rank index get_p(q) reads the scratch
\* sequence at is strictly less than the length of the sequence for every q
\* in [0, 100]; a single-sample container returns that sample's value.
C6_RankIndexInRange ==
    PercentileQueried =>
        /\ ret.index < ret.sz
        /\ \A s \in StoredSamples(statsBuckets) :
               StoredSamples(statsBuckets) = {s} => ret.val = s.second

\* C7: get_p(q) and get_p70() fail with std::out_of_range exactly when the
\* container holds no sample, then return no value, and never change a
\* bucket.
C7_EmptyError ==
    [][ret'.op \in {"get_p", "get_p70"} =>
          /\ statsBuckets' = statsBuckets
          /\ ret'.err = "out_of_range" <=> NoSamples(statsBuckets)
          /\ ret'.err = "out_of_range" => ret'.val = NoValue]_vars

C7_Witness ==
    /\ ret.op \in {"get_p", "get_p70"}
    /\ ret.err = "out_of_range"
    /\ NoSamples(statsBuckets)

\* C8: every bucket i is empty or all its samples share one timestamp t with
\* t mod W = i.
C8_RingInvariant ==
    \A i \in 0..(TIMEOUT - 1) :
        \A k \in 1..Len(statsBuckets[i]) :
            /\ statsBuckets[i][k].first = statsBuckets[i][1].first
            /\ statsBuckets[i][k].first % TIMEOUT = i

C8_Witness ==
    /\ \E i \in 0..(TIMEOUT - 1) : Len(statsBuckets[i]) >= 2
    /\ Cardinality(NotDiscarded) < Len(history)

\* C9: add(t, v) changes only bucket t mod W: it appends (t, v) when the
\* bucket was empty or held timestamp t, and leaves exactly (t, v) when the
\* bucket held another timestamp.
C9_AddFrame ==
    [][Len(history') = Len(history) + 1 =>
          LET t   == history'[Len(history')]
              new == StatsPair(t, ret'.val, Len(history'))
              i   == t % TIMEOUT
              old == statsBuckets[i]
          IN  /\ \A j \in 0..(TIMEOUT - 1) :
                     j # i => statsBuckets'[j] = statsBuckets[j]
              /\ (old = <<>> \/ \A k \in 1..Len(old) : old[k].first = t)
                     => statsBuckets'[i] = Append(old, new)
              /\ (old # <<>> /\ \E k \in 1..Len(old) : old[k].first # t)
                     => statsBuckets'[i] = <<new>>]_vars

\* The last add discarded the pairs that the two adds before it had stored
\* in the same bucket under another timestamp, the second of them appended
\* to the first.
C9_Witness ==
    /\ ret.op = "add"
    /\ Len(history) >= 2
    /\ LET t    == history[Len(history)]
           prev == history[Len(history) - 1]
       IN  /\ prev % TIMEOUT = t % TIMEOUT
           /\ prev # t
           /\ statsBuckets[t % TIMEOUT] = <<StatsPair(t, ret.val, Len(history))>>
    /\ \E k \in 1..(Len(history) - 2) : history[k] = history[k + 1]

\* C10: size() is the number of add calls whose pair no later add to the
\* same bucket index with a different timestamp discarded; it counts the
\* stored samples the view skips, so it is at least the number of samples
\* the view yields.
C10_SizeCountsStored ==
    ret.op = "size" =>
        /\ ret.sz = Cardinality(NotDiscarded)
        /\ ret.sz >= Len(View)

C10_Witness ==
    /\ ret.op = "size"
    /\ ret.sz < Len(history)
    /\ ret.sz > Len(View)

\* C11: after clear(), and in a freshly constructed container, every bucket
\* is empty, size() is 0 and begin() equals end(): the view yields nothing.
\* This holds for every width, W = 1 included.
C11_ClearEmpties ==
    ret.op \in {"none", "clear"} =>
        /\ NoSamples(statsBuckets)
        /\ size(statsBuckets) = 0
        /\ ~not_equal(begin(statsBuckets), end(statsBuckets))
        /\ View = <<>>

C11_Witness ==
    /\ ret.op = "clear"
    /\ TIMEOUT = 1
    /\ ~not_equal(begin(statsBuckets), end(statsBuckets))

\* C12: every sample that add(t, v) discards is stale when it is discarded,
\* whatever the order of the timestamps: its timestamp is <= t_max' - W,
\* t_max' being the maximum stored timestamp after the add.
C12_DiscardedIsStale ==
    [][Len(history') = Len(history) + 1 =>
          \A s \in StoredSamples(statsBuckets) \ StoredSamples(statsBuckets') :
              s.first <= TMax(statsBuckets') - TIMEOUT]_vars

\* C16: when the container holds a sample, index_max computed by the view's
\* constructor is the index of a non-empty bucket holding the maximum stored
\* timestamp, also when every stored timestamp is 0; the end position differs
\* from begin() and a traversal ends with the samples of bucket index_max.
C16_IndexMaxIsNewest ==
    (ret.op = "traverse" /\ ~NoSamples(statsBuckets)) =>
        LET it     == statsBucketsIterator(statsBuckets)
            newest == statsBuckets[it.index_max]
            n      == Len(ret.out)
        IN  /\ newest # <<>>
            /\ newest[1].first = TMax(statsBuckets)
            /\ not_equal(begin(statsBuckets), end(statsBuckets))
            /\ n >= Len(newest)
            /\ SubSeq(ret.out, n - Len(newest) + 1, n) = newest

\* A traversal of a container whose stored timestamps are all 0.
C16_Witness ==
    /\ ret.op = "traverse"
    /\ ret.out # <<>>
    /\ TMax(statsBuckets) = 0

\* The values physically stored, bucket after bucket.
RECURSIVE StoredValuesFrom(_, _)
StoredValuesFrom(stats, i) ==
    IF i >= TIMEOUT THEN <<>>
    ELSE [k \in 1..Len(stats[i]) |-> stats[i][k].second]
            \o StoredValuesFrom(stats, i + 1)

\* ceil(n * q / 100) in the integers.
Ceil100(n, q) ==
    CHOOSE k \in 0..(n * q + 1) : 100 * k >= n * q /\ 100 * (k - 1) < n * q

NonDecreasing(seq) == \A k \in 1..(Len(seq) - 1) : seq[k] <= seq[k + 1]

\* C14: two get_p(q) calls, q in [0, 100], on the same non-empty container
\* state return the same value, and neither changes a bucket.
C14_Deterministic ==
    [][(/\ ret.op = "get_p" /\ ret'.op = "get_p" /\ ret'.p = ret.p
        /\ ret.p \in 0..100 /\ ~NoSamples(statsBuckets))
          => /\ statsBuckets' = statsBuckets
             /\ ret'.err = ret.err
             /\ ret'.val = ret.val]_vars

\* C18: when every stored sample is live and ceil(n*q/100) < n, get_p(q)
\* returns the element at position ceil(n*q/100) of the ascending-sorted
\* stored values, and (n*q + 99) / 100 is that ceiling.
C18_CeilRank ==
    LET n == Cardinality(StoredSamples(statsBuckets))
    IN  (/\ PercentileQueried
         /\ StoredSamples(statsBuckets) = LiveSamples(statsBuckets)
         /\ Ceil100(n, ret.p) < n)
          => /\ ret.err = "none"
             /\ ret.index = Ceil100(n, ret.p)
             /\ ret.val = sort(StoredValuesFrom(statsBuckets, 0))[Ceil100(n, ret.p) + 1]

\* C19: when the timestamps passed to add are non-decreasing, every sample
\* add(t, v) discards has timestamp <= t - W, and the buckets hold every
\* sample added since the last clear whose timestamp is in (t - W, t].
C19_WindowKept ==
    [][(Len(history') = Len(history) + 1 /\ NonDecreasing(history')) =>
          LET t == history'[Len(history')]
          IN  /\ \A s \in StoredSamples(statsBuckets) \ StoredSamples(statsBuckets') :
                     s.first <= t - TIMEOUT
              /\ \A k \in 1..Len(history') :
                     history'[k] > t - TIMEOUT =>
                        \E s \in StoredSamples(statsBuckets') :
                            s.n = k /\ s.first = history'[k]]_vars

\* Non-decreasing adds after which one pair has been discarded and two pairs
\* of the trailing window are stored.
C19_Witness ==
    /\ ret.op = "add"
    /\ NonDecreasing(history)
    /\ Cardinality(NotDiscarded) < Len(history)
    /\ size(statsBuckets) >= 2

\* C20: no stored sample has timestamp t_max - W, so when t_max >= W the
\* test timestamp < ts_min of seek skips exactly the stored samples with
\* timestamp <= t_max - W. Checked whenever a view is traversed.
C20_SkipTestsAgree ==
    (ret.op = "traverse" /\ ~NoSamples(statsBuckets)) =>
        LET t_max == TMax(statsBuckets)
            it    == statsBucketsIterator(statsBuckets)
        IN  /\ \A s \in StoredSamples(statsBuckets) : s.first # t_max - TIMEOUT
            /\ t_max >= TIMEOUT =>
                  \A s \in StoredSamples(statsBuckets) :
                      s.first < it.ts_min <=> s.first <= t_max - TIMEOUT

\* A traversal that skipped a stored sample older than t_max - W.
C20_Witness ==
    /\ ret.op = "traverse"
    /\ ~NoSamples(statsBuckets)
    /\ TMax(statsBuckets) >= TIMEOUT
    /\ \E s \in StoredSamples(statsBuckets) :
           s.first < TMax(statsBuckets) - TIMEOUT /\ s \notin Elements(ret.out)

\* C13: get_p(q) with q outside [0, 100] is rejected with an explicit
\* INVALID_PERCENTILE error, computes no rank index and returns no value.
\* (On a container without samples the call fails with std::out_of_range
\* whatever q is, see C7; the property is stated for the other states.)
C13_InvalidPercentileRejected ==
    (ret.op = "get_p" /\ ret.p \notin 0..100 /\ ~NoSamples(statsBuckets)) =>
        /\ ret.err = "invalid_percentile"
        /\ ret.val = NoValue

\* The iterator a reader walking alone holds after k increments from begin().
RECURSIVE Advance(_, _, _)
Advance(stats, it, k) ==
    IF k = 0 \/ ~not_equal(it, end(stats)) THEN it
    ELSE Advance(stats, increment(stats, it), k - 1)

\* Reader r has just begun or advanced its view, or found it at end().
ViewMoved(r) == views'[r] # views[r] /\ views'[r].state # "none"

\* C15: on a container nobody mutates, views walked in any interleaving each
\* yield what a view walked alone yields: at every moment a reader holds the
\* iterator and the pairs of a lone traversal that made as many steps, a
\* finished reader has visited the complete view, and a step of one view
\* changes neither the buckets nor another view.
C15_ViewsIndependent ==
    /\ [](\A r \in Readers :
            views[r].state # "none" =>
               /\ Len(views[r].out) <= Len(View)
               /\ views[r].out = SubSeq(View, 1, Len(views[r].out))
               /\ views[r].it = Advance(statsBuckets, begin(statsBuckets),
                                        Len(views[r].out))
               /\ views[r].state = "done" => views[r].out = View)
    /\ [][\A r \in Readers :
            ViewMoved(r) =>
               /\ statsBuckets' = statsBuckets
               /\ \A x \in Readers \ {r} : views'[x] = views[x]]_vars

\* Two readers in the middle of the same view at different positions, one of
\* them finished.
C15_Witness ==
    \E r, x \in Readers :
        /\ views[r].state = "done"
        /\ Len(views[r].out) >= 2
        /\ views[x].state = "active"
        /\ Len(views[x].out) = 1

\* C17: a traversal terminates: a reader visits at most size() pairs, one per
\* increment, and begin() and every increment move the bucket index at most
\* W times.
C17_TraversalBounded ==
    /\ LET it == statsBucketsIterator(statsBuckets)
       IN  seek_moves(statsBuckets,
                      [it EXCEPT !.index = next_(it.index_max),
                                 !.current = [bucket |-> next_(it.index_max),
                                              pos |-> 0]])
              <= TIMEOUT
    /\ \A r \in Readers :
           views[r].state # "none" =>
              /\ Len(views[r].out) <= size(statsBuckets)
              /\ (views[r].state = "active"
                     /\ not_equal(views[r].it, end(statsBuckets)))
                    => seek_moves(statsBuckets,
                                  [views[r].it EXCEPT !.current.pos = @ + 1])
                          <= TIMEOUT

\* A reader has finished a view that skipped a stored pair.
C17_Witness ==
    \E r \in Readers :
        /\ views[r].state = "done"
        /\ views[r].out # <<>>
        /\ Len(views[r].out) < size(statsBuckets)
====
